---- MODULE Spec2Model ----
(***************************************************************************)
(* Living Interface: interaction tracker (hooks/useInteractionTracking.ts),*)
(* entity store and layout engine (hooks/useEntityState.ts) and the spring *)
(* parameter derivation (getSpringConfig, listed in README.md).            *)
(*                                                                         *)
(* Number conventions (JavaScript numbers are doubles; TLC has integers):  *)
(*   - times are milliseconds, sizes and coordinates are pixels;           *)
(*   - opacity is kept in hundredths (0.18 is 18, 1 is 100);               *)
(*   - spring mass is kept in tenths (0.8 is 8, 3 is 30);                  *)
(*   - velocities are pixels per second, divisions round down;             *)
(*   - angles are milliradians, sines are in units of 1/10000.             *)
(***************************************************************************)
EXTENDS Integers, Sequences, FiniteSets, TLC

VARIABLES
    now,              \* Date.now()
    entities,         \* React state `entities` of useEntityState (committed)
    closureEntities,  \* what handleEntityInteraction reads of the `entities` array it captured
                      \* at the last render: each entity's id and visualState
    containerSize,    \* React state `containerSize` of Home
    interactions,     \* interactionsRef.current : Map from entity id to event buffer
    lastPosition,     \* lastPositionRef.current : Map from entity id to last sample
    recorded,         \* history variable: every event recorded per id since the last reset
    last,             \* history variable: the last operation and its arguments
    budget,           \* remaining steps of each kind (bounds the exploration)
    springIn,         \* argument of the getSpringConfig evaluation under test
    springOut,        \* its result
    entityCountArg,   \* the entityCount argument useEntityState was called with
    mounted,          \* Home is mounted
    intervals,        \* the active interval timers: when each is due next and in which
                      \* container size its callback was created
    effectInterval,   \* the handle `interval` held by the cleanup of the timer effect (0: none)
    lastPass,         \* history variable: when the layout timer last fired (or was mounted)
    props,            \* the `entity` prop each Entity component was last rendered with
    isHovered,        \* React state `isHovered` of each Entity component
    hoverStartTimeRef,  \* hoverStartTimeRef.current of each Entity component (0: null)
    dragStartPosRef,  \* dragStartPosRef.current of each Entity component (Undefined: null)
    dragStartTimeRef, \* dragStartTimeRef.current of each Entity component (0: null)
    timeouts          \* the pending setTimeout callbacks of each Entity component: when
                      \* each one is due, in the order they were set

\* the state of Home around the hooks
\* the state of the Entity components
viewVars == <<props, isHovered, hoverStartTimeRef, dragStartPosRef, dragStartTimeRef,
              timeouts>>

pageVars == <<entityCountArg, mounted, intervals, effectInterval, lastPass, viewVars>>

vars == <<now, entities, closureEntities, containerSize, interactions,
          lastPosition, recorded, last, budget, springIn, springOut, pageVars>>

-----------------------------------------------------------------------------
(* Bounds of the exploration                                               *)

MaxSteps == 4            \* operations per behaviour (renders are not counted)
MaxInteractions == 4     \* handleEntityInteraction calls per behaviour
MaxTicks == 2            \* clock advances per behaviour
MaxStateOps == 1         \* updateInteractionState calls per behaviour
MaxDrags == 1            \* updateTargetPosition calls per behaviour
MaxLayouts == 1          \* recalculateLayout passes per behaviour
MaxResizes == 1          \* container resizes per behaviour
MaxTrackerRecords == 150 \* trackInteraction calls per behaviour of the tracker specification
MaxVariety == 1          \* departures from the plain burst per behaviour of the tracker specification
MaxResets == 1           \* reset calls per behaviour of the tracker specification
MaxTimerTicks == 4       \* clock advances per behaviour of the timer specification
MaxTimerOps == 1         \* interactions per behaviour of the timer specification
MaxMotionSteps == 3      \* operations per behaviour of the motion specification
MaxGrowthCalls == 6      \* interactions per behaviour of the growth specification
MaxPopulationSteps == 2  \* operations per behaviour of the population specification
MaxViewSteps == 5        \* events per behaviour of the Entity component specification

-----------------------------------------------------------------------------
(* Program constants                                                       *)

MaxEvents == 100          \* events kept per entity
FrequencyWindow == 60000  \* ms window of `frequency`
DragExemption == 10000    \* ms a dragged entity is skipped by the layout
StartTime == 100000       \* Date.now() when the entities are created
DefaultEntityCount == 15  \* entity count passed by Home
LayoutPeriod == 3000      \* ms between two runs of the layout timer

Undefined == [undefined |-> TRUE]   \* an omitted optional argument / absent map entry
NoDrag == 0                         \* lastDragTime never set (falsy, like undefined)
UnknownId == 99                     \* an id that matches no entity

Min(a, b) == IF a < b THEN a ELSE b
Max(a, b) == IF a > b THEN a ELSE b
Abs(a) == IF a < 0 THEN -a ELSE a

RECURSIVE SqrtBetween(_, _, _)
\* the largest r in lo..hi with r * r <= n (bisection)
SqrtBetween(n, lo, hi) ==
    IF lo >= hi THEN lo
    ELSE LET mid == (lo + hi + 1) \div 2
         IN IF mid * mid <= n THEN SqrtBetween(n, mid, hi) ELSE SqrtBetween(n, lo, mid - 1)
\* Math.sqrt, rounded down (arguments stay below 2^30)
Sqrt(n) == SqrtBetween(n, 0, Min(n, 32767))

RECURSIVE SumSeq(_, _)
\* events.reduce((sum, e) => sum + f(e), 0)
SumSeq(s, field) ==
    IF s = <<>> THEN 0
    ELSE (IF field = "duration" THEN Head(s).duration ELSE Head(s).velocity)
         + SumSeq(Tail(s), field)

\* events.filter(pred)
FilterSeq(s, Keep(_)) == SelectSeq(s, Keep)

\* the n last elements of s
LastN(s, n) == SubSeq(s, Len(s) - n + 1, Len(s))

\* map.set(key, value)
MapSet(map, key, value) ==
    [k \in DOMAIN map \cup {key} |-> IF k = key THEN value ELSE map[k]]

\* new Map(), map.clear()
EmptyMap == [k \in {} |-> <<>>]

\* interactionsRef.current.get(entityId) || []
EventsOf(evs, entityId) == IF entityId \in DOMAIN evs THEN evs[entityId] ELSE <<>>

-----------------------------------------------------------------------------
(* hooks/useInteractionTracking.ts                                         *)

\* the distance of two points
Distance(a, b) == Sqrt((b.x - a.x) * (b.x - a.x) + (b.y - a.y) * (b.y - a.y))

\* mutant of EventVelocity: the last-position sample is preferred when there is one
EventVelocitySampleFirst(entityId, duration, startPosition, endPosition, timestamp, lastPos) ==
    IF entityId \in DOMAIN lastPos
    THEN LET lst == lastPos[entityId]
             timeDelta == timestamp - lst.timestamp
         IN IF timeDelta > 0 /\ endPosition # Undefined
            THEN (Distance([x |-> lst.x, y |-> lst.y], endPosition) * 1000) \div timeDelta
            ELSE 0
    ELSE IF startPosition # Undefined /\ endPosition # Undefined /\ duration > 0
         THEN (Distance(startPosition, endPosition) * 1000) \div duration
         ELSE 0

\* mutant of EventVelocity: the elapsed time is not tested before the division; a
\* division by zero gives Infinity or NaN, written -1 here
EventVelocityUnguarded(entityId, duration, startPosition, endPosition, timestamp, lastPos) ==
    IF startPosition # Undefined /\ endPosition # Undefined /\ duration > 0
    THEN (Distance(startPosition, endPosition) * 1000) \div duration
    ELSE IF entityId \in DOMAIN lastPos
         THEN LET lst == lastPos[entityId]
                  timeDelta == timestamp - lst.timestamp
              IN IF endPosition # Undefined
                 THEN IF timeDelta = 0 THEN -1
                      ELSE (Distance([x |-> lst.x, y |-> lst.y], endPosition) * 1000)
                              \div timeDelta
                 ELSE 0
         ELSE 0

\* the velocity trackInteraction computes
EventVelocity(entityId, duration, startPosition, endPosition, timestamp, lastPos) ==
    IF startPosition # Undefined /\ endPosition # Undefined /\ duration > 0
    THEN (Distance(startPosition, endPosition) * 1000) \div duration
    ELSE IF entityId \in DOMAIN lastPos
         THEN LET lst == lastPos[entityId]
                  timeDelta == timestamp - lst.timestamp
              IN IF timeDelta > 0 /\ endPosition # Undefined
                 THEN (Distance([x |-> lst.x, y |-> lst.y], endPosition) * 1000) \div timeDelta
                 ELSE 0
         ELSE 0

\* the last-position map after trackInteraction
NextLastPosition(entityId, endPosition, timestamp, lastPos) ==
    IF endPosition # Undefined
    THEN MapSet(lastPos, entityId,
                [x |-> endPosition.x, y |-> endPosition.y, timestamp |-> timestamp])
    ELSE lastPos

\* mutant of PushEvent: the newest event is dropped instead of the oldest
PushEventDropNewest(events, e) ==
    LET pushed == Append(events, e)
    IN IF Len(pushed) > MaxEvents THEN SubSeq(pushed, 1, Len(pushed) - 1) ELSE pushed

\* events.push(e); if (events.length > 100) events.shift()
PushEvent(events, e) ==
    LET pushed == Append(events, e)
    IN IF Len(pushed) > MaxEvents THEN Tail(pushed) ELSE pushed

\* the event trackInteraction stores
NewEvent(entityId, duration, startPosition, endPosition, timestamp, lastPos) ==
    [entityId |-> entityId, timestamp |-> timestamp, duration |-> duration,
     velocity |-> EventVelocity(entityId, duration, startPosition, endPosition,
                                timestamp, lastPos)]

\* the event map after trackInteraction
TrackInteraction(entityId, duration, startPosition, endPosition, timestamp, lastPos, evs) ==
    MapSet(evs, entityId,
           PushEvent(EventsOf(evs, entityId),
                     NewEvent(entityId, duration, startPosition, endPosition,
                              timestamp, lastPos)))

\* mutant of ZeroHistory: the snapshot of an empty buffer carries a time
ZeroHistoryStamped ==
    [frequency |-> 0, totalDuration |-> 0, lastInteractionTime |-> StartTime,
     averageVelocity |-> 0, interactionCount |-> 0]

\* the snapshot returned when there are no events
ZeroHistory ==
    [frequency |-> 0, totalDuration |-> 0, lastInteractionTime |-> 0,
     averageVelocity |-> 0, interactionCount |-> 0]

\* mutant of RecentEvents: an event recorded in the very millisecond of the query
\* does not count yet
RecentEventsPast(events, t) ==
    LET Recent(e) == 0 < t - e.timestamp /\ t - e.timestamp < FrequencyWindow
    IN FilterSeq(events, Recent)

\* mutant of RecentEvents: an event exactly 60000 ms old still counts
RecentEventsInclusive(events, t) ==
    LET Recent(e) == t - e.timestamp <= FrequencyWindow
    IN FilterSeq(events, Recent)

\* events.filter(e => now - e.timestamp < 60000)
RecentEvents(events, t) ==
    LET Recent(e) == t - e.timestamp < FrequencyWindow
    IN FilterSeq(events, Recent)

\* mutant of GetInteractionHistory: frequency and interactionCount are swapped
GetInteractionHistorySwapped(events, t) ==
    IF Len(events) = 0
    THEN ZeroHistory
    ELSE [frequency |-> Len(events),
          totalDuration |-> SumSeq(events, "duration"),
          lastInteractionTime |-> events[Len(events)].timestamp,
          averageVelocity |-> SumSeq(events, "velocity") \div Len(events),
          interactionCount |-> Len(RecentEvents(events, t))]

\* getInteractionHistory(entityId) at time t, for the entity's event buffer
GetInteractionHistory(events, t) ==
    IF Len(events) = 0
    THEN ZeroHistory
    ELSE [frequency |-> Len(RecentEvents(events, t)),
          totalDuration |-> SumSeq(events, "duration"),
          lastInteractionTime |-> events[Len(events)].timestamp,
          averageVelocity |-> SumSeq(events, "velocity") \div Len(events),
          interactionCount |-> Len(events)]

-----------------------------------------------------------------------------
(* hooks/useEntityState.ts: the entity store                               *)

COLORS == <<"#3b82f6", "#ef4444", "#10b981", "#f59e0b",
            "#8b5cf6", "#ec4899", "#06b6d4", "#84cc16">>
SHAPES == <<"circle", "square", "hexagon">>
InteractionStates == {"idle", "active", "hovered", "ignored", "dismissed"}
InteractionTypes == {"hover", "click", "drag"}

Seeds == {99}  \* seeds of the Math.random() sequence explored

\* the k-th Math.random() draw for entity `index`, in hundredths, in 0..99
Random(seed, index, k) == (seed + 37 * index + k * (seed + 2)) % 100

createInitialEntity(id, index, containerWidth, containerHeight, seed, createdAt) ==
    LET isMobile == containerWidth < 768
        baseSize == IF isMobile THEN 40 ELSE 60
        sizeRange == IF isMobile THEN 30 ELSE 40
    IN [id |-> id,
        visualState |->
            [size |-> baseSize + (Random(seed, index, 0) * sizeRange) \div 100,
             color |-> COLORS[(index % Len(COLORS)) + 1],
             opacity |-> 70 + (Random(seed, index, 1) * 30) \div 100,
             shape |-> SHAPES[(index % Len(SHAPES)) + 1]],
        interactionState |-> "idle",
        interactionHistory |-> ZeroHistory,
        position |-> [x |-> (Random(seed, index, 2) * containerWidth) \div 100,
                      y |-> (Random(seed, index, 3) * containerHeight) \div 100],
        targetPosition |-> [x |-> (Random(seed, index, 4) * containerWidth) \div 100,
                            y |-> (Random(seed, index, 5) * containerHeight) \div 100],
        createdAt |-> createdAt,
        lastDragTime |-> NoDrag]

\* mutant of normalizedCount: no upper limit
normalizedCountUnlimited(entityCount) == Max(10, entityCount)

\* Math.max(10, Math.min(20, entityCount))
normalizedCount(entityCount) == Max(10, Min(20, entityCount))

\* Array.from({length: normalizedCount}, (_, i) => createInitialEntity(`entity-${i}`, i, ...))
InitialEntities(entityCount, containerWidth, containerHeight, seed, createdAt) ==
    [k \in 1..normalizedCount(entityCount) |->
        createInitialEntity(k - 1, k - 1, containerWidth, containerHeight, seed, createdAt)]

\* the ids the operations are called with: two entities and an unknown id
Ids == {0, 1, UnknownId}

\* entities.map(e => ({id: e.id, visualState: e.visualState}))
Captured(ents) ==
    [k \in DOMAIN ents |-> [id |-> ents[k].id, visualState |-> ents[k].visualState]]

\* prev.map(entity => entity.id === entityId ? {...entity, ...updates} : entity)
\* `Merge(e)` is {...e, ...updates}
updateEntityState(prev, entityId, Merge(_)) ==
    [k \in DOMAIN prev |-> IF prev[k].id = entityId THEN Merge(prev[k]) ELSE prev[k]]

\* entities.find(e => e.id === entityId): the index of the entity, 0 when there is none
FindIndex(ents, entityId) ==
    IF \E k \in DOMAIN ents : ents[k].id = entityId
    THEN CHOOSE k \in DOMAIN ents :
            ents[k].id = entityId /\ \A j \in DOMAIN ents : ents[j].id = entityId => k <= j
    ELSE 0

(* The visual-state rules of handleEntityInteraction.  `nvs` is the       *)
(* Partial<VisualState> newVisualState: a field that is not yet set is     *)
(* Unset, and `x ?? entity.visualState.f` reads the entity's field.        *)
Unset == -1
Coalesce(v, dflt) == IF v = Unset THEN dflt ELSE v

FrequencyRule(nvs, vs, history) ==
    IF history.frequency > 3
    THEN [size |-> Min(130, vs.size + 12), opacity |-> Min(100, vs.opacity + 12)]
    ELSE nvs

\* mutant of VelocityRule: the punch is added to the entity's fields, not to the
\* result of the frequency rule
VelocityRuleIndependent(nvs, vs, history) ==
    IF history.averageVelocity > 600
    THEN [size |-> Min(135, vs.size + 6), opacity |-> Min(100, vs.opacity + 5)]
    ELSE nvs

VelocityRule(nvs, vs, history) ==
    IF history.averageVelocity > 600
    THEN [size |-> Min(135, Coalesce(nvs.size, vs.size) + 6),
          opacity |-> Min(100, Coalesce(nvs.opacity, vs.opacity) + 5)]
    ELSE nvs

\* mutant of HoverClickRule: the hover glow is not capped at 1
HoverClickRuleUncapped(nvs, vs, type, duration) ==
    IF type = "hover" /\ duration > 1200
    THEN [nvs EXCEPT !.opacity = Coalesce(nvs.opacity, vs.opacity) + 8]
    ELSE IF type = "click" /\ duration < 400
         THEN [nvs EXCEPT !.size = Min(140, Coalesce(nvs.size, vs.size) + 4)]
         ELSE nvs

\* mutant of HoverClickRule: the glow is given from 1200 ms on, and is 0.18
HoverClickRuleEager(nvs, vs, type, duration) ==
    IF type = "hover" /\ duration >= 1200
    THEN [nvs EXCEPT !.opacity = Min(100, Coalesce(nvs.opacity, vs.opacity) + 18)]
    ELSE IF type = "click" /\ duration < 400
         THEN [nvs EXCEPT !.size = Min(140, Coalesce(nvs.size, vs.size) + 4)]
         ELSE nvs

HoverClickRule(nvs, vs, type, duration) ==
    IF type = "hover" /\ duration > 1200
    THEN [nvs EXCEPT !.opacity = Min(100, Coalesce(nvs.opacity, vs.opacity) + 8)]
    ELSE IF type = "click" /\ duration < 400
         THEN [nvs EXCEPT !.size = Min(140, Coalesce(nvs.size, vs.size) + 4)]
         ELSE nvs

DecayRule(nvs, vs, history, timeSinceLastInteraction) ==
    IF timeSinceLastInteraction > 10000 /\ history.frequency = 0
    THEN [size |-> Max(36, Coalesce(nvs.size, vs.size) - 8),
          opacity |-> Max(25, Coalesce(nvs.opacity, vs.opacity) - 8)]
    ELSE nvs

DeepDecayRule(nvs, vs, history, timeSinceLastInteraction) ==
    IF timeSinceLastInteraction > 15000 /\ history.frequency = 0
    THEN [nvs EXCEPT !.opacity = Max(18, Coalesce(nvs.opacity, vs.opacity) - 12)]
    ELSE nvs

\* the newVisualState handleEntityInteraction builds from the captured entity
NewVisualState(vs, history, type, duration, timeSinceLastInteraction) ==
    LET n0 == [size |-> Unset, opacity |-> Unset]
        n1 == FrequencyRule(n0, vs, history)
        n2 == VelocityRule(n1, vs, history)
        n3 == HoverClickRule(n2, vs, type, duration)
        n4 == DecayRule(n3, vs, history, timeSinceLastInteraction)
    IN DeepDecayRule(n4, vs, history, timeSinceLastInteraction)

\* {...entity.visualState, ...newVisualState}
MergeVisualState(vs, nvs) ==
    [vs EXCEPT !.size = Coalesce(nvs.size, vs.size),
               !.opacity = Coalesce(nvs.opacity, vs.opacity)]

-----------------------------------------------------------------------------
(* hooks/useEntityState.ts: recalculateLayout                              *)

Pi == 3142   \* milliradians

\* Math.sin of an angle in [0, Pi] (Bhaskara's rational approximation), in 1/10000
SinHalf(x) ==
    LET p == x * (Pi - x)
    IN Min(10000, (160 * p) \div ((5 * Pi * Pi - 4 * p) \div 1000))

\* Math.sin of an angle in milliradians, in 1/10000
Sin(a) ==
    LET r == a % (2 * Pi)
    IN IF r <= Pi THEN SinHalf(r) ELSE -SinHalf(r - Pi)

\* Math.cos of an angle in milliradians, in 1/10000
Cos(a) == Sin(a + Pi \div 2)

\* hash - Math.floor(hash) for hash = Math.abs(s * (whole + frac/10000)), in 1/10000
HashFraction(s, whole, frac) == (Abs(s) * whole + (Abs(s) * frac) \div 10000) % 10000

\* mutant of BaseTarget: the first seed also takes the time of the last interaction
BaseTargetByHistory(entity, idx, containerWidth, containerHeight) ==
    LET seed1 == (entity.createdAt + entity.interactionHistory.lastInteractionTime) * 123
                 + idx * 456789 + entity.id * 123456
        seed2 == entity.createdAt * 456 + idx * 789123 + entity.id * 654321
        seed3 == entity.createdAt * 789 + idx * 321654
        seed4 == entity.createdAt * 321 + idx * 654987
        randomX == HashFraction(Sin(seed1), 43758, 5453)
        randomY == HashFraction(Sin(seed2), 43758, 5453)
        randomOffsetX == ((HashFraction(Cos(seed3), 12345, 6789) - 5000) * 150) \div 10000
        randomOffsetY == ((HashFraction(Sin(seed4), 98765, 4321) - 5000) * 150) \div 10000
        padding == 80
        availableWidth == containerWidth - padding * 2
        availableHeight == containerHeight - padding * 2
        targetX == padding + (randomX * availableWidth) \div 10000 + randomOffsetX
        targetY == padding + (randomY * availableHeight) \div 10000 + randomOffsetY
    IN [x |-> Max(padding, Min(containerWidth - padding, targetX)),
        y |-> Max(padding, Min(containerHeight - padding, targetY))]

\* the padded pseudo-random target (before center pull, edge drift, repulsion, drift)
BaseTarget(entity, idx, containerWidth, containerHeight) ==
    LET seed1 == entity.createdAt * 123 + idx * 456789 + entity.id * 123456
        seed2 == entity.createdAt * 456 + idx * 789123 + entity.id * 654321
        seed3 == entity.createdAt * 789 + idx * 321654
        seed4 == entity.createdAt * 321 + idx * 654987
        randomX == HashFraction(Sin(seed1), 43758, 5453)
        randomY == HashFraction(Sin(seed2), 43758, 5453)
        randomOffsetX == ((HashFraction(Cos(seed3), 12345, 6789) - 5000) * 150) \div 10000
        randomOffsetY == ((HashFraction(Sin(seed4), 98765, 4321) - 5000) * 150) \div 10000
        padding == 80
        availableWidth == containerWidth - padding * 2
        availableHeight == containerHeight - padding * 2
        targetX == padding + (randomX * availableWidth) \div 10000 + randomOffsetX
        targetY == padding + (randomY * availableHeight) \div 10000 + randomOffsetY
    IN [x |-> Max(padding, Min(containerWidth - padding, targetX)),
        y |-> Max(padding, Min(containerHeight - padding, targetY))]

\* the pull toward the center for highly engaged entities
CenterPull(t, history, containerWidth, containerHeight) ==
    LET freqScore == Min(1000, (history.frequency * 1000) \div 6)   \* in 1/1000
        centerPull == ((freqScore - 500) * 3) \div 10                \* in 1/1000
    IN IF freqScore > 500
       THEN [x |-> (t.x * (1000 - centerPull) + (containerWidth \div 2) * centerPull) \div 1000,
             y |-> (t.y * (1000 - centerPull) + (containerHeight \div 2) * centerPull) \div 1000]
       ELSE t

\* timeSinceLastInteraction > 8000 && history.frequency === 0
Ignored(history, t) == t - history.lastInteractionTime > 8000 /\ history.frequency = 0

\* ignored entities drift to the edges
EdgeDrift(t, history, time, containerWidth, containerHeight) ==
    LET padding == 80
        availableWidth == containerWidth - padding * 2
        availableHeight == containerHeight - padding * 2
    IN IF Ignored(history, time)
       THEN [x |-> IF t.x > containerWidth \div 2
                   THEN padding + (availableWidth * 9) \div 10
                   ELSE padding + availableWidth \div 10,
             y |-> IF t.y > containerHeight \div 2
                   THEN padding + (availableHeight * 9) \div 10
                   ELSE padding + availableHeight \div 10]
       ELSE t

\* mutant of ActiveEntities: every entity repels, active or not
ActiveEntitiesAll(prev, histories) == DOMAIN prev

\* histories.filter(({entity, history}) => history.frequency > 0 || entity.interactionState === 'active')
ActiveEntities(prev, histories) ==
    {k \in DOMAIN prev : histories[k].frequency > 0 \/ prev[k].interactionState = "active"}

\* the push entity `k` gets from the active entity `o` (read at its stored targetPosition)
RepelFrom(t, other) ==
    LET dx == t.x - other.targetPosition.x
        dy == t.y - other.targetPosition.y
        distSq == dx * dx + dy * dy
        dist == Sqrt(distSq)
    IN IF distSq < 1 \/ dist >= 180
       THEN [x |-> 0, y |-> 0]
       ELSE [x |-> (dx * (180 - dist) * 28) \div (dist * 180),
             y |-> (dy * (180 - dist) * 28) \div (dist * 180)]

RECURSIVE RepelSum(_, _, _, _)
\* activeEntities.forEach(...) accumulating repelX, repelY
RepelSum(t, prev, k, others) ==
    IF others = {} THEN [x |-> 0, y |-> 0]
    ELSE LET o == CHOOSE j \in others : \A i \in others : j <= i
             rest == RepelSum(t, prev, k, others \ {o})
             push == IF prev[o].id = prev[k].id THEN [x |-> 0, y |-> 0]
                     ELSE RepelFrom(t, prev[o])
         IN [x |-> push.x + rest.x, y |-> push.y + rest.y]

\* the per-entity sinusoidal drift
Drift(idx, time) ==
    LET driftSpeed == 80 + idx * 30                 \* microradians per ms
        driftAmplitude == 15 + (idx % 5) * 8
        driftDirection == IF idx % 3 = 0 THEN 2 ELSE IF idx % 3 = 1 THEN -2 ELSE 1  \* halves
    IN [x |-> (Sin((time * driftSpeed) \div 1000 + idx * 1000)
                 * driftAmplitude * driftDirection) \div 20000,
        y |-> (Cos((((time \div 10) * driftSpeed) * 8) \div 1000 + idx * 1500)
                 * driftAmplitude * 7) \div 100000]

\* mutant of LayoutTarget: the final clamp into the container is left out
LayoutTargetUnclamped(prev, histories, k, time, containerWidth, containerHeight) ==
    LET idx == k - 1
        base == BaseTarget(prev[k], idx, containerWidth, containerHeight)
        pulled == CenterPull(base, histories[k], containerWidth, containerHeight)
        edged == EdgeDrift(pulled, histories[k], time, containerWidth, containerHeight)
        repel == RepelSum(edged, prev, k, ActiveEntities(prev, histories))
        drift == Drift(idx, time)
    IN [x |-> edged.x + repel.x + drift.x, y |-> edged.y + repel.y + drift.y]

\* the targetPosition a pass computes for the entity at index idx (k = idx + 1)
LayoutTarget(prev, histories, k, time, containerWidth, containerHeight) ==
    LET idx == k - 1
        base == BaseTarget(prev[k], idx, containerWidth, containerHeight)
        pulled == CenterPull(base, histories[k], containerWidth, containerHeight)
        edged == EdgeDrift(pulled, histories[k], time, containerWidth, containerHeight)
        repel == RepelSum(edged, prev, k, ActiveEntities(prev, histories))
        drift == Drift(idx, time)
        margin == 40
    IN [x |-> Max(margin, Min(containerWidth - margin, edged.x + repel.x + drift.x)),
        y |-> Max(margin, Min(containerHeight - margin, edged.y + repel.y + drift.y))]

\* mutant of RecentlyDragged: an entity dragged exactly 10000 ms ago is still skipped
RecentlyDraggedInclusive(entity, time) ==
    entity.lastDragTime # NoDrag /\ time - entity.lastDragTime <= DragExemption

\* timeSinceLastDrag < 10000, with timeSinceLastDrag = Infinity when lastDragTime is not set
RecentlyDragged(entity, time) ==
    entity.lastDragTime # NoDrag /\ time - entity.lastDragTime < DragExemption

\* mutant of LayoutPass: a recently dragged entity is returned as it is
LayoutPassSkipExempt(prev, evs, time, containerWidth, containerHeight) ==
    LET histories == [k \in DOMAIN prev |->
                         GetInteractionHistory(EventsOf(evs, prev[k].id), time)]
    IN [k \in DOMAIN prev |->
          IF RecentlyDragged(prev[k], time)
          THEN prev[k]
          ELSE [prev[k] EXCEPT !.interactionHistory = histories[k],
                               !.targetPosition =
                                   LayoutTarget(prev, histories, k, time,
                                                containerWidth, containerHeight)]]

\* the entity collection a pass returns
LayoutPass(prev, evs, time, containerWidth, containerHeight) ==
    LET histories == [k \in DOMAIN prev |->
                         GetInteractionHistory(EventsOf(evs, prev[k].id), time)]
    IN [k \in DOMAIN prev |->
          IF RecentlyDragged(prev[k], time)
          THEN [prev[k] EXCEPT !.interactionHistory = histories[k]]
          ELSE [prev[k] EXCEPT !.interactionHistory = histories[k],
                               !.targetPosition =
                                   LayoutTarget(prev, histories, k, time,
                                                containerWidth, containerHeight)]]

-----------------------------------------------------------------------------
(* utils/motionParams.ts as listed in README.md: getSpringConfig           *)

SpringFrequencyRule(c, history) ==
    IF history.frequency > 3
    THEN [stiffness |-> 200 + history.frequency * 20,
          damping |-> 20 + history.frequency * 2,
          mass |-> 8]
    ELSE c

SpringVelocityRule(c, history) ==
    IF history.averageVelocity > 500
    THEN [c EXCEPT !.stiffness = @ + 100, !.damping = @ - 5]
    ELSE c

SpringDurationRule(c, history) ==
    IF history.totalDuration > 5000
    THEN [c EXCEPT !.damping = @ + 2, !.mass = @ + 2]
    ELSE c

SpringIgnoredRule(c, history, timeSinceLastInteraction) ==
    IF timeSinceLastInteraction > 5000 /\ history.frequency = 0
    THEN [stiffness |-> 50, damping |-> 10, mass |-> 15]
    ELSE c

\* mutant of SpringVeryIgnoredRule: the rule applies from 10000 ms on
SpringVeryIgnoredRuleInclusive(c, history, timeSinceLastInteraction) ==
    IF timeSinceLastInteraction >= 10000 /\ history.frequency = 0
    THEN [stiffness |-> 30, damping |-> 8, mass |-> 20]
    ELSE c

SpringVeryIgnoredRule(c, history, timeSinceLastInteraction) ==
    IF timeSinceLastInteraction > 10000 /\ history.frequency = 0
    THEN [stiffness |-> 30, damping |-> 8, mass |-> 20]
    ELSE c

\* mutant of SpringClamp: the stiffness is not capped
SpringClampLoose(c) ==
    [stiffness |-> Max(20, c.stiffness),
     damping |-> Max(5, Min(30, c.damping)),
     mass |-> Max(5, Min(30, c.mass))]

\* the final clamp
SpringClamp(c) ==
    [stiffness |-> Max(20, Min(300, c.stiffness)),
     damping |-> Max(5, Min(30, c.damping)),
     mass |-> Max(5, Min(30, c.mass))]

getSpringConfig(history, prefersReducedMotion, time) ==
    LET timeSinceLastInteraction == time - history.lastInteractionTime
        c0 == [stiffness |-> 100, damping |-> 15, mass |-> 10]
        c1 == SpringFrequencyRule(c0, history)
        c2 == SpringVelocityRule(c1, history)
        c3 == SpringDurationRule(c2, history)
        c4 == SpringIgnoredRule(c3, history, timeSinceLastInteraction)
        c5 == SpringVeryIgnoredRule(c4, history, timeSinceLastInteraction)
    IN IF prefersReducedMotion
       THEN [stiffness |-> 1000, damping |-> 100, mass |-> 10]
       ELSE SpringClamp(c5)

-----------------------------------------------------------------------------
(* State machine                                                           *)

\* the indexes of the entities whose Entity component is followed
Views == {1}

\* the Entity components after their first render: nothing hovered, nothing dragged,
\* no timeout pending
ViewsMounted ==
    /\ props = [k \in Views |-> entities[k]]
    /\ isHovered = [k \in Views |-> FALSE]
    /\ hoverStartTimeRef = [k \in Views |-> 0]
    /\ dragStartPosRef = [k \in Views |-> Undefined]
    /\ dragStartTimeRef = [k \in Views |-> 0]
    /\ timeouts = [k \in Views |-> <<>>]

NoOp(op) ==
    [op |-> op, id |-> UnknownId, type |-> "", duration |-> 0,
     startPosition |-> Undefined, endPosition |-> Undefined,
     state |-> "", x |-> 0, y |-> 0, time |-> now,
     found |-> FALSE, captured |-> Undefined, committed |-> Undefined,
     priorHistory |-> ZeroHistory, returned |-> Undefined]

InitBudget ==
    [steps |-> MaxSteps, interactions |-> MaxInteractions, ticks |-> MaxTicks, stateOps |-> MaxStateOps,
     drags |-> MaxDrags, layouts |-> MaxLayouts, resizes |-> MaxResizes,
     records |-> MaxTrackerRecords, variety |-> MaxVariety, resets |-> MaxResets]

NoSpringIn == [history |-> ZeroHistory, prefersReducedMotion |-> FALSE, time |-> 0]
NoSpringOut == [stiffness |-> 0, damping |-> 0, mass |-> 0]

\* the state after the first render of a component that calls useEntityState(1200, 800, count)
\* and whose mount effect has set the container to `size` (the entities were created in
\* the default 1200 x 800); the layout timer is left out (recalculateLayout may fire at any time)
ConstructedWith(count, steps, size) ==
    /\ now = StartTime
    /\ containerSize = size
    /\ entityCountArg = count
    /\ mounted = TRUE
    /\ intervals = {}
    /\ effectInterval = 0
    /\ lastPass = StartTime
    /\ \E seed \in Seeds :
          entities = InitialEntities(count, 1200, 800, seed, StartTime)
    /\ closureEntities = Captured(entities)
    /\ ViewsMounted
    /\ interactions = EmptyMap
    /\ lastPosition = EmptyMap
    /\ recorded = [i \in Ids |-> <<>>]
    /\ last = [NoOp("init") EXCEPT !.time = StartTime]
    /\ budget = [InitBudget EXCEPT !.steps = steps]

\* the state after the first render of Home: 15 entities in the default 1200 x 800 container
Constructed == ConstructedWith(DefaultEntityCount, MaxSteps, [width |-> 1200, height |-> 800])

Init ==
    /\ Constructed
    /\ springIn = NoSpringIn
    /\ springOut = NoSpringOut

TickSteps == {3000, 10000, 60000}

\* time passes
Tick(d) ==
    /\ budget.steps > 0 /\ budget.ticks > 0
    /\ now' = now + d
    /\ budget' = [budget EXCEPT !.steps = @ - 1, !.ticks = @ - 1]
    /\ UNCHANGED <<entities, closureEntities, containerSize, interactions,
                   lastPosition, recorded, last, springIn, springOut, pageVars>>

\* React re-renders: the callbacks capture the committed entities
Render ==
    /\ closureEntities # Captured(entities)
    /\ closureEntities' = Captured(entities)
    /\ UNCHANGED <<now, entities, containerSize, interactions, lastPosition,
                   recorded, last, budget, springIn, springOut, pageVars>>

\* handleEntityInteraction(entityId, type, duration, startPos, endPos)
handleEntityInteraction(entityId, type, duration, startPos, endPos) ==
    LET event == NewEvent(entityId, duration, startPos, endPos, now, lastPosition)
        evs == TrackInteraction(entityId, duration, startPos, endPos, now,
                                lastPosition, interactions)
        history == GetInteractionHistory(EventsOf(evs, entityId), now)
        MergeHistory(e) == [e EXCEPT !.interactionHistory = history]
        withHistory == updateEntityState(entities, entityId, MergeHistory)
        k == FindIndex(closureEntities, entityId)
        timeSinceLastInteraction == now - history.lastInteractionTime
    IN /\ budget.steps > 0 /\ budget.interactions > 0
       /\ budget' = [budget EXCEPT !.steps = @ - 1, !.interactions = @ - 1]
       /\ interactions' = evs
       /\ lastPosition' = NextLastPosition(entityId, endPos, now, lastPosition)
       /\ recorded' = [recorded EXCEPT ![entityId] = Append(@, event)]
       /\ IF k = 0
          THEN entities' = withHistory
          ELSE LET vs == closureEntities[k].visualState
                   nvs == NewVisualState(vs, history, type, duration,
                                         timeSinceLastInteraction)
                   MergeVisual(e) == [e EXCEPT !.visualState = MergeVisualState(vs, nvs)]
               IN entities' = updateEntityState(withHistory, entityId, MergeVisual)
       /\ last' = [NoOp("handleEntityInteraction") EXCEPT
                      !.id = entityId, !.type = type, !.duration = duration,
                      !.startPosition = startPos, !.endPosition = endPos,
                      !.found = (k # 0),
                      !.captured = IF k = 0 THEN Undefined
                                   ELSE closureEntities[k].visualState,
                      !.committed = IF FindIndex(entities, entityId) = 0 THEN Undefined
                                    ELSE entities[FindIndex(entities, entityId)].visualState,
                      !.priorHistory =
                          GetInteractionHistory(EventsOf(interactions, entityId), now)]
       /\ UNCHANGED <<now, closureEntities, containerSize, springIn, springOut, pageVars>>

\* mutant of updateInteractionState: an id that matches no entity falls back to the first entity
updateInteractionStateOrFirst(entityId, state) ==
    LET SetState(e) == [e EXCEPT !.interactionState = state]
        target == IF \E k \in DOMAIN entities : entities[k].id = entityId
                  THEN entityId ELSE entities[1].id
    IN /\ budget.steps > 0 /\ budget.stateOps > 0
       /\ budget' = [budget EXCEPT !.steps = @ - 1, !.stateOps = @ - 1]
       /\ entities' = updateEntityState(entities, target, SetState)
       /\ last' = [NoOp("updateInteractionState") EXCEPT !.id = entityId, !.state = state]
       /\ UNCHANGED <<now, closureEntities, containerSize, interactions, lastPosition,
                      recorded, springIn, springOut, pageVars>>

\* updateInteractionState(entityId, state)
updateInteractionState(entityId, state) ==
    LET SetState(e) == [e EXCEPT !.interactionState = state]
    IN /\ budget.steps > 0 /\ budget.stateOps > 0
       /\ budget' = [budget EXCEPT !.steps = @ - 1, !.stateOps = @ - 1]
       /\ entities' = updateEntityState(entities, entityId, SetState)
       /\ last' = [NoOp("updateInteractionState") EXCEPT !.id = entityId, !.state = state]
       /\ UNCHANGED <<now, closureEntities, containerSize, interactions, lastPosition,
                      recorded, springIn, springOut, pageVars>>

\* mutant of updateTargetPosition: the current position is moved as well
updateTargetPositionMoving(entityId, x, y) ==
    LET SetTarget(e) == [e EXCEPT !.targetPosition = [x |-> x, y |-> y],
                                  !.position = [x |-> x, y |-> y],
                                  !.lastDragTime = now]
    IN /\ budget.steps > 0 /\ budget.drags > 0
       /\ budget' = [budget EXCEPT !.steps = @ - 1, !.drags = @ - 1]
       /\ entities' = updateEntityState(entities, entityId, SetTarget)
       /\ last' = [NoOp("updateTargetPosition") EXCEPT !.id = entityId, !.x = x, !.y = y]
       /\ UNCHANGED <<now, closureEntities, containerSize, interactions, lastPosition,
                      recorded, springIn, springOut, pageVars>>

\* updateTargetPosition(entityId, x, y)
updateTargetPosition(entityId, x, y) ==
    LET SetTarget(e) == [e EXCEPT !.targetPosition = [x |-> x, y |-> y],
                                  !.lastDragTime = now]
    IN /\ budget.steps > 0 /\ budget.drags > 0
       /\ budget' = [budget EXCEPT !.steps = @ - 1, !.drags = @ - 1]
       /\ entities' = updateEntityState(entities, entityId, SetTarget)
       /\ last' = [NoOp("updateTargetPosition") EXCEPT !.id = entityId, !.x = x, !.y = y]
       /\ UNCHANGED <<now, closureEntities, containerSize, interactions, lastPosition,
                      recorded, springIn, springOut, pageVars>>

\* recalculateLayout(), fired by the interval timer of Home
recalculateLayout ==
    /\ budget.steps > 0 /\ budget.layouts > 0
    /\ budget' = [budget EXCEPT !.steps = @ - 1, !.layouts = @ - 1]
    /\ entities' = LayoutPass(entities, interactions, now,
                              containerSize.width, containerSize.height)
    /\ last' = NoOp("recalculateLayout")
    /\ UNCHANGED <<now, closureEntities, containerSize, interactions, lastPosition,
                   recorded, springIn, springOut, pageVars>>

ContainerSizes == {[width |-> 320, height |-> 400], [width |-> 1200, height |-> 800]}

\* the window is resized: updateSize() of Home sets the container size
Resize(size) ==
    /\ budget.steps > 0 /\ budget.resizes > 0
    /\ size # containerSize
    /\ budget' = [budget EXCEPT !.steps = @ - 1, !.resizes = @ - 1]
    /\ containerSize' = size
    /\ UNCHANGED <<now, entities, closureEntities, interactions, lastPosition,
                   recorded, last, springIn, springOut, pageVars>>

DragIds == {1, UnknownId}
P00 == [x |-> 0, y |-> 0]
P30 == [x |-> 300, y |-> 0]
P34 == [x |-> 300, y |-> 400]
\* the calls of handleEntityInteraction explored
InteractionCalls ==
    { [id |-> 0, type |-> "hover", duration |-> 2000,
       startPosition |-> Undefined, endPosition |-> Undefined],
      [id |-> 0, type |-> "hover", duration |-> 1200,
       startPosition |-> Undefined, endPosition |-> Undefined],
      [id |-> 0, type |-> "click", duration |-> 300,
       startPosition |-> Undefined, endPosition |-> Undefined],
      [id |-> 0, type |-> "drag", duration |-> 500,
       startPosition |-> P00, endPosition |-> P34],
      [id |-> UnknownId, type |-> "click", duration |-> 300,
       startPosition |-> Undefined, endPosition |-> Undefined] }

Next ==
    \/ \E d \in TickSteps : Tick(d)
    \/ Render
    \/ \E c \in InteractionCalls :
          handleEntityInteraction(c.id, c.type, c.duration, c.startPosition, c.endPosition)
    \/ \E id \in DragIds, st \in {"active"} : updateInteractionState(id, st)
    \/ \E id \in DragIds, p \in {P34} : updateTargetPosition(id, p.x, p.y)
    \/ recalculateLayout
    \/ \E size \in ContainerSizes : Resize(size)

Spec == Init /\ [][Next]_vars

TypeOK ==
    /\ now \in Nat
    /\ \A k \in DOMAIN entities : entities[k].id = k - 1

-----------------------------------------------------------------------------
(* The store created with other entity counts than Home's 15.              *)

\* the entityCount arguments explored: below, at and above the limits 10 and 20
EntityCounts == {0, 9, 10, 11, 15, 20, 21, 25}

PopulationInit ==
    /\ \E count \in EntityCounts : ConstructedWith(count, MaxPopulationSteps, [width |-> 1200, height |-> 800])
    /\ springIn = NoSpringIn
    /\ springOut = NoSpringOut

SpecPopulation == PopulationInit /\ [][Next]_vars

-----------------------------------------------------------------------------
(* The layout engine in a small window: the mount effect of Home has set   *)
(* the container to its minimum size before the first operation.           *)

P13 == [x |-> 110, y |-> 300]

\* the calls of handleEntityInteraction explored with the layout
LayoutCalls ==
    { [id |-> 0, type |-> "click", duration |-> 300,
       startPosition |-> Undefined, endPosition |-> Undefined],
      [id |-> 1, type |-> "drag", duration |-> 500,
       startPosition |-> P00, endPosition |-> P13] }

LayoutInit ==
    /\ ConstructedWith(DefaultEntityCount, MaxSteps, [width |-> 320, height |-> 400])
    /\ springIn = NoSpringIn
    /\ springOut = NoSpringOut

LayoutNext ==
    \/ \E d \in TickSteps : Tick(d)
    \/ Render
    \/ \E c \in LayoutCalls :
          handleEntityInteraction(c.id, c.type, c.duration, c.startPosition, c.endPosition)
    \/ \E id \in DragIds, st \in {"active"} : updateInteractionState(id, st)
    \/ \E id \in DragIds : updateTargetPosition(id, P13.x, P13.y)
    \/ recalculateLayout
    \/ \E size \in ContainerSizes : Resize(size)

SpecLayout == LayoutInit /\ [][LayoutNext]_vars

-----------------------------------------------------------------------------
(* Home with its layout timer: the effect of page.tsx that starts the      *)
(* interval, is re-run when recalculateLayout changes (it changes with the *)
(* container size) and is cleaned up on unmount.  Time cannot pass a due   *)
(* timer: the callback runs when it is due.                                *)

\* setInterval(callback, 3000) at time t, the callback being the recalculateLayout
\* created in a container of `size`
NewInterval(handle, t, size) ==
    [handle |-> handle, due |-> t + LayoutPeriod, width |-> size.width, height |-> size.height]

\* clearInterval(handle)
ClearInterval(timers, handle) == {i \in timers : i.handle # handle}

\* the state after Home has mounted in a window that gives the container `size`:
\* the timer effect has started its interval
TimerInit ==
    /\ now = StartTime
    /\ \E size \in ContainerSizes :
          /\ containerSize = size
          /\ intervals = {NewInterval(1, StartTime, size)}
    /\ entityCountArg = DefaultEntityCount
    /\ mounted = TRUE
    /\ effectInterval = 1
    /\ lastPass = StartTime
    /\ \E seed \in Seeds :
          entities = InitialEntities(DefaultEntityCount, 1200, 800, seed, StartTime)
    /\ closureEntities = Captured(entities)
    /\ ViewsMounted
    /\ interactions = EmptyMap
    /\ lastPosition = EmptyMap
    /\ recorded = [i \in Ids |-> <<>>]
    /\ last = [NoOp("init") EXCEPT !.time = StartTime]
    /\ budget = [InitBudget EXCEPT !.steps = MaxTimerOps, !.ticks = MaxTimerTicks]
    /\ springIn = NoSpringIn
    /\ springOut = NoSpringOut

TimerTickSteps == {1000, 3000}

\* time passes, up to the moment the next timer is due
TimerTick(d) ==
    /\ budget.ticks > 0
    /\ \A i \in intervals : now + d <= i.due
    /\ now' = now + d
    /\ budget' = [budget EXCEPT !.ticks = @ - 1]
    /\ UNCHANGED <<entities, closureEntities, containerSize, interactions, lastPosition,
                   recorded, last, springIn, springOut, pageVars>>

\* an interval is due: its callback calls recalculateLayout()
IntervalFire ==
    \E i \in intervals :
        /\ i.due = now
        /\ entities' = LayoutPass(entities, interactions, now, i.width, i.height)
        /\ intervals' = (intervals \ {i}) \cup {[i EXCEPT !.due = now + LayoutPeriod]}
        /\ lastPass' = now
        /\ last' = NoOp("recalculateLayout")
        /\ UNCHANGED <<now, closureEntities, containerSize, interactions, lastPosition,
                       recorded, budget, springIn, springOut, entityCountArg, mounted,
                       effectInterval, viewVars>>

\* mutant of TimerResize: the effect is re-run without the cleanup of the previous run
TimerResizeNoCleanup(size) ==
    /\ mounted
    /\ budget.resizes > 0
    /\ size # containerSize
    /\ budget' = [budget EXCEPT !.resizes = @ - 1]
    /\ containerSize' = size
    /\ intervals' = intervals \cup {NewInterval(effectInterval + 1, now, size)}
    /\ effectInterval' = effectInterval + 1
    /\ UNCHANGED <<now, entities, closureEntities, interactions, lastPosition, recorded,
                   last, springIn, springOut, entityCountArg, mounted, lastPass, viewVars>>

\* the window is resized while Home is mounted: updateSize() sets the container size,
\* recalculateLayout is created anew, and the timer effect is cleaned up and re-run
TimerResize(size) ==
    /\ mounted
    /\ budget.resizes > 0
    /\ size # containerSize
    /\ budget' = [budget EXCEPT !.resizes = @ - 1]
    /\ containerSize' = size
    /\ intervals' = ClearInterval(intervals, effectInterval)
                        \cup {NewInterval(effectInterval + 1, now, size)}
    /\ effectInterval' = effectInterval + 1
    /\ UNCHANGED <<now, entities, closureEntities, interactions, lastPosition, recorded,
                   last, springIn, springOut, entityCountArg, mounted, lastPass, viewVars>>

\* Home is unmounted: the cleanup of the timer effect runs
Unmount ==
    /\ mounted
    /\ mounted' = FALSE
    /\ intervals' = ClearInterval(intervals, effectInterval)
    /\ effectInterval' = 0
    /\ last' = NoOp("unmount")
    /\ UNCHANGED <<now, entities, closureEntities, containerSize, interactions,
                   lastPosition, recorded, budget, springIn, springOut, entityCountArg,
                   lastPass, viewVars>>

\* an interaction with a mounted entity
TimerInteraction ==
    /\ mounted
    /\ handleEntityInteraction(0, "click", 300, Undefined, Undefined)

TimerNext ==
    \/ \E d \in TimerTickSteps : TimerTick(d)
    \/ IntervalFire
    \/ \E size \in ContainerSizes : TimerResize(size)
    \/ Unmount
    \/ TimerInteraction
    \/ Render

SpecTimer == TimerInit /\ [][TimerNext]_vars

-----------------------------------------------------------------------------
(* The tracker on its own: trackInteraction, getInteractionHistory, reset  *)
(* called directly, in a long burst of records with a few departures.      *)

\* the plain step of the burst: 100 ms on entity-0 ending at (300,0), 1 ms after the previous call
PlainCall == [gap |-> 1, id |-> 0, duration |-> 100,
              startPosition |-> Undefined, endPosition |-> P30]

\* the departures explored
VariedCalls ==
    { [gap |-> 61000, id |-> 0, duration |-> 700,
       startPosition |-> Undefined, endPosition |-> Undefined],
      [gap |-> 0, id |-> 0, duration |-> 500, startPosition |-> P00, endPosition |-> P34],
      [gap |-> 2000, id |-> 0, duration |-> 0, startPosition |-> Undefined, endPosition |-> P34],
      [gap |-> 0, id |-> 0, duration |-> 0, startPosition |-> P00, endPosition |-> P34],
      [gap |-> 1, id |-> 1, duration |-> 2000, startPosition |-> P00, endPosition |-> P30] }

\* the record counts at which a departure may happen
VarietyPoints == {0, 1, 60, 99, 100, 101, 149}

\* records made so far in this behaviour
RecordsMade == MaxTrackerRecords - budget.records

\* trackInteraction(entityId, duration, startPosition, endPosition), gap ms after the last step
trackInteraction(c) ==
    LET t == now + c.gap
    IN /\ budget.records > 0
       /\ now' = t
       /\ interactions' = TrackInteraction(c.id, c.duration, c.startPosition,
                                           c.endPosition, t, lastPosition, interactions)
       /\ lastPosition' = NextLastPosition(c.id, c.endPosition, t, lastPosition)
       /\ recorded' = [recorded EXCEPT ![c.id] =
                          Append(@, NewEvent(c.id, c.duration, c.startPosition,
                                             c.endPosition, t, lastPosition))]
       /\ last' = [NoOp("trackInteraction") EXCEPT
                      !.id = c.id, !.duration = c.duration, !.time = t,
                      !.startPosition = c.startPosition, !.endPosition = c.endPosition,
                      !.priorHistory =
                          GetInteractionHistory(EventsOf(interactions, c.id), t)]
       /\ UNCHANGED <<entities, closureEntities, containerSize, springIn, springOut, pageVars>>

PlainRecord ==
    /\ trackInteraction(PlainCall)
    /\ budget' = [budget EXCEPT !.records = @ - 1]

VariedRecord ==
    /\ budget.variety > 0
    /\ RecordsMade \in VarietyPoints
    /\ \E c \in VariedCalls : trackInteraction(c)
    /\ budget' = [budget EXCEPT !.records = @ - 1, !.variety = @ - 1]

\* mutant of reset: the last-position samples are kept
resetBuffersOnly ==
    /\ budget.resets > 0
    /\ RecordsMade \in VarietyPoints
    /\ budget' = [budget EXCEPT !.resets = @ - 1]
    /\ interactions' = EmptyMap
    /\ recorded' = [i \in Ids |-> <<>>]
    /\ last' = NoOp("reset")
    /\ UNCHANGED <<now, entities, closureEntities, containerSize, lastPosition,
                   springIn, springOut, pageVars>>

\* reset()
reset ==
    /\ budget.resets > 0
    /\ RecordsMade \in VarietyPoints
    /\ budget' = [budget EXCEPT !.resets = @ - 1]
    /\ interactions' = EmptyMap
    /\ lastPosition' = EmptyMap
    /\ recorded' = [i \in Ids |-> <<>>]
    /\ last' = NoOp("reset")
    /\ UNCHANGED <<now, entities, closureEntities, containerSize, springIn, springOut, pageVars>>

\* getInteractionHistory(entityId) called by a client of the tracker: a read of the maps
getInteractionHistory(entityId) ==
    /\ RecordsMade \in VarietyPoints
    /\ last' = [NoOp("getInteractionHistory") EXCEPT
                   !.id = entityId,
                   !.returned = GetInteractionHistory(EventsOf(interactions, entityId), now)]
    /\ UNCHANGED <<now, entities, closureEntities, containerSize, interactions,
                   lastPosition, recorded, budget, springIn, springOut, pageVars>>

TrackerNext ==
    \/ PlainRecord
    \/ VariedRecord
    \/ reset
    \/ \E id \in Ids : getInteractionHistory(id)

SpecTracker == Init /\ [][TrackerNext]_vars

-----------------------------------------------------------------------------
(* getSpringConfig on its own: the history, the motion preference and the  *)
(* time of evaluation are drawn from sets around every threshold.          *)

SpringFrequencies == {0, 1, 3, 4, 5, 6, 50}
SpringVelocities == {0, 500, 501, 5000}
SpringDurations == {0, 5000, 5001}
SpringIdleTimes == {0, 5000, 5001, 10000, 10001, 70000}

SpringInit ==
    /\ Constructed
    /\ \E f \in SpringFrequencies, v \in SpringVelocities,
          d \in SpringDurations, idle \in SpringIdleTimes, rm \in BOOLEAN :
          springIn = [history |-> [frequency |-> f, totalDuration |-> d,
                                   lastInteractionTime |-> StartTime - idle,
                                   averageVelocity |-> v, interactionCount |-> Max(f, 1)],
                      prefersReducedMotion |-> rm, time |-> StartTime]
    /\ springOut = NoSpringOut

\* const springConfig = getSpringConfig(entity.interactionHistory, prefersReducedMotion)
EvaluateSpring ==
    /\ springOut = NoSpringOut
    /\ springOut' = getSpringConfig(springIn.history, springIn.prefersReducedMotion,
                                    springIn.time)
    /\ UNCHANGED <<now, entities, closureEntities, containerSize, interactions,
                   lastPosition, recorded, last, budget, springIn, pageVars>>

SpecSpring == SpringInit /\ [][EvaluateSpring]_vars

-----------------------------------------------------------------------------
(* The store with the Entity component: each render of an entity derives   *)
(* its spring from the entity's stored interactionHistory at Date.now().   *)

\* Entity renders the entity at index k:
\* const springConfig = getSpringConfig(entity.interactionHistory, prefersReducedMotion)
EntitySpring(k, prefersReducedMotion) ==
    /\ springIn' = [history |-> entities[k].interactionHistory,
                    prefersReducedMotion |-> prefersReducedMotion, time |-> now]
    /\ springOut' = getSpringConfig(entities[k].interactionHistory, prefersReducedMotion, now)
    /\ UNCHANGED <<now, entities, closureEntities, containerSize, interactions,
                   lastPosition, recorded, last, budget, pageVars>>

MotionInit ==
    /\ ConstructedWith(DefaultEntityCount, MaxMotionSteps, [width |-> 1200, height |-> 800])
    /\ springIn = NoSpringIn
    /\ springOut = NoSpringOut

MotionNext ==
    \/ \E d \in TickSteps : Tick(d)
    \/ Render
    \/ handleEntityInteraction(0, "click", 300, Undefined, Undefined)
    \/ recalculateLayout
    \/ \E k \in {1, 2}, rm \in BOOLEAN : EntitySpring(k, rm)

SpecMotion == MotionInit /\ [][MotionNext]_vars

-----------------------------------------------------------------------------
(* One entity interacted with many times in a row: clicks, long hovers and *)
(* fast drags on entity-0, with or without a re-render between two calls.  *)

GrowthInit ==
    /\ now = StartTime
    /\ containerSize = [width |-> 1200, height |-> 800]
    /\ entityCountArg = DefaultEntityCount
    /\ mounted = TRUE
    /\ intervals = {}
    /\ effectInterval = 0
    /\ lastPass = StartTime
    /\ \E seed \in Seeds :
          entities = InitialEntities(DefaultEntityCount, 1200, 800, seed, StartTime)
    /\ closureEntities = Captured(entities)
    /\ ViewsMounted
    /\ interactions = EmptyMap
    /\ lastPosition = EmptyMap
    /\ recorded = [i \in Ids |-> <<>>]
    /\ last = [NoOp("init") EXCEPT !.time = StartTime]
    /\ budget = [InitBudget EXCEPT !.steps = MaxGrowthCalls, !.interactions = MaxGrowthCalls]
    /\ springIn = NoSpringIn
    /\ springOut = NoSpringOut

\* the calls of handleEntityInteraction explored
GrowthCalls ==
    { [id |-> 0, type |-> "click", duration |-> 300,
       startPosition |-> Undefined, endPosition |-> Undefined],
      [id |-> 0, type |-> "hover", duration |-> 2000,
       startPosition |-> Undefined, endPosition |-> Undefined],
      [id |-> 0, type |-> "drag", duration |-> 500,
       startPosition |-> P00, endPosition |-> P34] }

GrowthNext ==
    \/ \E c \in GrowthCalls :
          handleEntityInteraction(c.id, c.type, c.duration, c.startPosition, c.endPosition)
    \/ Render

SpecGrowth == GrowthInit /\ [][GrowthNext]_vars

-----------------------------------------------------------------------------
(* components/StatsPanel.tsx: the Entity component.  Its handlers call the *)
(* store through the props onInteraction (handleEntityInteraction),        *)
(* onInteractionStateChange (updateInteractionState) and onPositionUpdate  *)
(* (updateTargetPosition); the updates a handler queues are applied in the *)
(* order of the calls.  The pointer is a mouse: a click or a drag starts   *)
(* on the entity the pointer is over.                                      *)

\* `prev` after updateInteractionState(entityId, state)
WithInteractionState(prev, entityId, state) ==
    LET SetState(e) == [e EXCEPT !.interactionState = state]
    IN updateEntityState(prev, entityId, SetState)

\* `prev` after updateTargetPosition(entityId, x, y)
WithTargetPosition(prev, entityId, x, y) ==
    LET SetTarget(e) == [e EXCEPT !.targetPosition = [x |-> x, y |-> y],
                                  !.lastDragTime = now]
    IN updateEntityState(prev, entityId, SetTarget)

\* `prev` after handleEntityInteraction(entityId, type, duration, startPos, endPos)
WithInteraction(prev, entityId, type, duration, startPos, endPos) ==
    LET evs == TrackInteraction(entityId, duration, startPos, endPos, now,
                                lastPosition, interactions)
        history == GetInteractionHistory(EventsOf(evs, entityId), now)
        MergeHistory(e) == [e EXCEPT !.interactionHistory = history]
        withHistory == updateEntityState(prev, entityId, MergeHistory)
        k == FindIndex(closureEntities, entityId)
    IN IF k = 0
       THEN withHistory
       ELSE LET vs == closureEntities[k].visualState
                nvs == NewVisualState(vs, history, type, duration,
                                      now - history.lastInteractionTime)
                MergeVisual(e) == [e EXCEPT !.visualState = MergeVisualState(vs, nvs)]
            IN updateEntityState(withHistory, entityId, MergeVisual)

\* what trackInteraction(entityId, duration, startPos, endPos) does to the tracker
Tracked(entityId, duration, startPos, endPos) ==
    /\ interactions' = TrackInteraction(entityId, duration, startPos, endPos, now,
                                        lastPosition, interactions)
    /\ lastPosition' = NextLastPosition(entityId, endPos, now, lastPosition)
    /\ recorded' = [recorded EXCEPT ![entityId] =
                        Append(@, NewEvent(entityId, duration, startPos, endPos, now,
                                           lastPosition))]

\* what no handler of Entity changes
viewFrame == <<now, closureEntities, containerSize, springIn, springOut, entityCountArg,
               mounted, intervals, effectInterval, lastPass, props>>

\* React re-renders Home and the Entity components: the callbacks capture the
\* committed entities and every component gets its entity as prop
ViewRender ==
    /\ \/ closureEntities # Captured(entities)
       \/ props # [k \in Views |-> entities[k]]
    /\ closureEntities' = Captured(entities)
    /\ props' = [k \in Views |-> entities[k]]
    /\ UNCHANGED <<now, entities, containerSize, interactions, lastPosition, recorded,
                   last, budget, springIn, springOut, entityCountArg, mounted, intervals,
                   effectInterval, lastPass, isHovered, hoverStartTimeRef,
                   dragStartPosRef, dragStartTimeRef, timeouts>>

\* handleMouseEnter: the pointer enters the entity
handleMouseEnter(k) ==
    /\ budget.steps > 0
    /\ ~isHovered[k]
    /\ budget' = [budget EXCEPT !.steps = @ - 1]
    /\ isHovered' = [isHovered EXCEPT ![k] = TRUE]
    /\ hoverStartTimeRef' = [hoverStartTimeRef EXCEPT ![k] = now]
    /\ entities' = WithInteractionState(entities, props[k].id, "hovered")
    /\ last' = [NoOp("handleMouseEnter") EXCEPT !.id = props[k].id]
    /\ UNCHANGED <<viewFrame, interactions, lastPosition, recorded, dragStartPosRef,
                   dragStartTimeRef, timeouts>>

\* handleMouseLeave: the pointer leaves the entity
handleMouseLeave(k) ==
    LET duration == IF hoverStartTimeRef[k] # 0 THEN now - hoverStartTimeRef[k] ELSE 0
    IN /\ budget.steps > 0
       /\ isHovered[k]
       /\ budget' = [budget EXCEPT !.steps = @ - 1]
       /\ isHovered' = [isHovered EXCEPT ![k] = FALSE]
       /\ hoverStartTimeRef' = [hoverStartTimeRef EXCEPT ![k] = 0]
       /\ IF duration > 0
          THEN /\ Tracked(props[k].id, duration, Undefined, Undefined)
               /\ entities' = WithInteractionState(
                                  WithInteraction(entities, props[k].id, "hover", duration,
                                                  Undefined, Undefined),
                                  props[k].id, "idle")
          ELSE /\ entities' = WithInteractionState(entities, props[k].id, "idle")
               /\ UNCHANGED <<interactions, lastPosition, recorded>>
       /\ last' = [NoOp("handleMouseLeave") EXCEPT !.id = props[k].id,
                                                   !.duration = duration]
       /\ UNCHANGED <<viewFrame, dragStartPosRef, dragStartTimeRef, timeouts>>

\* handleClick: the entity is clicked; a timeout is set that returns it to idle
handleClick(k) ==
    LET duration == IF hoverStartTimeRef[k] # 0 THEN now - hoverStartTimeRef[k] ELSE 0
    IN /\ budget.steps > 0
       /\ isHovered[k]
       /\ dragStartPosRef[k] = Undefined
       /\ budget' = [budget EXCEPT !.steps = @ - 1]
       /\ Tracked(props[k].id, duration, Undefined, Undefined)
       /\ entities' = WithInteractionState(
                          WithInteraction(entities, props[k].id, "click", duration,
                                          Undefined, Undefined),
                          props[k].id, "active")
       /\ timeouts' = [timeouts EXCEPT ![k] = Append(@, now + 300)]
       /\ last' = [NoOp("handleClick") EXCEPT !.id = props[k].id, !.duration = duration]
       /\ UNCHANGED <<viewFrame, isHovered, hoverStartTimeRef, dragStartPosRef,
                      dragStartTimeRef>>

\* the callback handleClick gave to setTimeout runs: the oldest pending one, once
\* it is due
ClickTimeout(k) ==
    /\ budget.steps > 0
    /\ timeouts[k] # <<>>
    /\ Head(timeouts[k]) <= now
    /\ budget' = [budget EXCEPT !.steps = @ - 1]
    /\ timeouts' = [timeouts EXCEPT ![k] = Tail(@)]
    /\ entities' = WithInteractionState(entities, props[k].id, "idle")
    /\ last' = [NoOp("clickTimeout") EXCEPT !.id = props[k].id]
    /\ UNCHANGED <<viewFrame, interactions, lastPosition, recorded, isHovered,
                   hoverStartTimeRef, dragStartPosRef, dragStartTimeRef>>

\* handleDragStart: a drag of the entity starts
handleDragStart(k) ==
    /\ budget.steps > 0
    /\ isHovered[k]
    /\ dragStartPosRef[k] = Undefined
    /\ budget' = [budget EXCEPT !.steps = @ - 1]
    /\ dragStartPosRef' = [dragStartPosRef EXCEPT ![k] = props[k].targetPosition]
    /\ dragStartTimeRef' = [dragStartTimeRef EXCEPT ![k] = now]
    /\ entities' = WithInteractionState(entities, props[k].id, "active")
    /\ last' = [NoOp("handleDragStart") EXCEPT !.id = props[k].id]
    /\ UNCHANGED <<viewFrame, interactions, lastPosition, recorded, isHovered,
                   hoverStartTimeRef, timeouts>>

\* the position a drag by `offset` gives: start + offset, kept inside the container
DragPosition(k, offset) ==
    [x |-> Max(0, Min(containerSize.width - props[k].visualState.size,
                      dragStartPosRef[k].x + offset.x)),
     y |-> Max(0, Min(containerSize.height - props[k].visualState.size,
                      dragStartPosRef[k].y + offset.y))]

\* handleDrag: the pointer moves during a drag
handleDrag(k, offset) ==
    /\ budget.steps > 0
    /\ dragStartPosRef[k] # Undefined
    /\ budget' = [budget EXCEPT !.steps = @ - 1]
    /\ entities' = WithTargetPosition(entities, props[k].id,
                                      DragPosition(k, offset).x, DragPosition(k, offset).y)
    /\ last' = [NoOp("handleDrag") EXCEPT !.id = props[k].id,
                                          !.x = DragPosition(k, offset).x,
                                          !.y = DragPosition(k, offset).y]
    /\ UNCHANGED <<viewFrame, interactions, lastPosition, recorded, isHovered,
                   hoverStartTimeRef, dragStartPosRef, dragStartTimeRef, timeouts>>

\* handleDragEnd: the drag ends
handleDragEnd(k, offset) ==
    LET duration == IF dragStartTimeRef[k] # 0 THEN now - dragStartTimeRef[k] ELSE 0
        endPos == DragPosition(k, offset)
    IN /\ budget.steps > 0
       /\ dragStartPosRef[k] # Undefined
       /\ budget' = [budget EXCEPT !.steps = @ - 1]
       /\ Tracked(props[k].id, duration, dragStartPosRef[k], endPos)
       /\ entities' = WithInteractionState(
                          WithInteraction(
                              WithTargetPosition(entities, props[k].id, endPos.x, endPos.y),
                              props[k].id, "drag", duration, dragStartPosRef[k], endPos),
                          props[k].id, "idle")
       /\ dragStartPosRef' = [dragStartPosRef EXCEPT ![k] = Undefined]
       /\ dragStartTimeRef' = [dragStartTimeRef EXCEPT ![k] = 0]
       /\ last' = [NoOp("handleDragEnd") EXCEPT
                      !.id = props[k].id, !.type = "drag", !.duration = duration,
                      !.startPosition = dragStartPosRef[k], !.endPosition = endPos]
       /\ UNCHANGED <<viewFrame, isHovered, hoverStartTimeRef, timeouts>>

\* the time between two events
ViewTickSteps == {100, 300}

\* the drag offsets explored
DragOffsets == {[x |-> 50, y |-> -30]}

ViewInit ==
    /\ ConstructedWith(DefaultEntityCount, MaxViewSteps, [width |-> 1200, height |-> 800])
    /\ springIn = NoSpringIn
    /\ springOut = NoSpringOut

ViewNext ==
    \/ \E d \in ViewTickSteps : Tick(d)
    \/ ViewRender
    \/ \E k \in Views :
          \/ handleMouseEnter(k)
          \/ handleMouseLeave(k)
          \/ handleClick(k)
          \/ ClickTimeout(k)
          \/ handleDragStart(k)
          \/ \E offset \in DragOffsets : handleDrag(k, offset)
          \/ \E offset \in DragOffsets : handleDragEnd(k, offset)

SpecEntity == ViewInit /\ [][ViewNext]_vars

-----------------------------------------------------------------------------
(* Properties                                                              *)

\* the index of the entity the last operation named
LastIndex == FindIndex(entities, last.id)

\* the last operation was handleEntityInteraction on an entity the callback found
Interacted == last.op = "handleEntityInteraction" /\ last.found

RECURSIVE DurationUpTo(_, _)
\* the durations of the first n events, added up
DurationUpTo(evs, n) == IF n = 0 THEN 0 ELSE evs[n].duration + DurationUpTo(evs, n - 1)

\* the events of evs that are less than 60000 ms old at time t
CountWithinMinute(evs, t) == Cardinality({i \in 1..Len(evs) : t - evs[i].timestamp < 60000})

WindowedHistory(h, evs, t) ==
    /\ h.frequency = CountWithinMinute(evs, t)
    /\ h.interactionCount = Len(evs)
    /\ h.totalDuration = DurationUpTo(evs, Len(evs))

\* C3: a history queried at time t (by an interaction or by a layout pass) has
\* frequency = the number of retained events less than 60000 ms old at t, while
\* interactionCount and totalDuration cover every retained event.
C3_FrequencyWindow ==
    /\ last.op = "recalculateLayout" =>
          \A k \in DOMAIN entities :
              WindowedHistory(entities[k].interactionHistory,
                              EventsOf(interactions, entities[k].id), last.time)
    /\ Interacted =>
          WindowedHistory(entities[LastIndex].interactionHistory,
                          interactions[last.id], last.time)

\* a queried history holds an event of a minute ago or older, and a recent one
C3_Witness ==
    /\ Interacted
    /\ entities[LastIndex].interactionHistory.frequency = 1
    /\ entities[LastIndex].interactionHistory.interactionCount = 2
    /\ \E i \in 1..Len(interactions[last.id]) :
          last.time - interactions[last.id][i].timestamp >= 60000
    /\ entities[LastIndex].interactionHistory.totalDuration
          = interactions[last.id][1].duration + interactions[last.id][2].duration

\* C4: every history the tracker returns and every history stored on an entity
\* has frequency <= interactionCount.
C4_FrequencyAtMostCount ==
    /\ \A k \in DOMAIN entities :
          entities[k].interactionHistory.frequency
              <= entities[k].interactionHistory.interactionCount
    /\ \A id \in Ids :
          GetInteractionHistory(EventsOf(interactions, id), now).frequency
              <= GetInteractionHistory(EventsOf(interactions, id), now).interactionCount

\* an entity's stored history has old and recent events
C4_Witness ==
    \E k \in DOMAIN entities :
        /\ 0 < entities[k].interactionHistory.frequency
        /\ entities[k].interactionHistory.frequency
              < entities[k].interactionHistory.interactionCount

\* C5: getSpringConfig without reduced motion returns 20 <= stiffness <= 300,
\* 5 <= damping <= 30, 0.5 <= mass <= 3 (mass in tenths); with reduced motion it
\* returns exactly {1000, 100, 1}.
C5_SpringRange ==
    springOut # NoSpringOut =>
        IF springIn.prefersReducedMotion
        THEN springOut = [stiffness |-> 1000, damping |-> 100, mass |-> 10]
        ELSE /\ 20 <= springOut.stiffness /\ springOut.stiffness <= 300
             /\ 5 <= springOut.damping /\ springOut.damping <= 30
             /\ 5 <= springOut.mass /\ springOut.mass <= 30

\* a frequency of 50 would give stiffness 1200: the clamp has acted
C5_Witness ==
    /\ springOut # NoSpringOut
    /\ ~springIn.prefersReducedMotion
    /\ springIn.history.frequency = 50
    /\ springOut.stiffness = 300
    /\ springOut.damping = 30

\* C6: updateTargetPosition(id,x,y) at time t sets targetPosition (x,y) and
\* lastDragTime t; a layout pass at time now keeps the targetPosition of an entity
\* with now - lastDragTime < 10000 and recomputes it otherwise; no other
\* operation changes targetPosition or lastDragTime.
C6_DragExemption ==
    [][ /\ budget'.drags # budget.drags =>
             \A k \in DOMAIN entities :
                 entities[k].id = last'.id =>
                     /\ entities'[k].targetPosition = [x |-> last'.x, y |-> last'.y]
                     /\ entities'[k].lastDragTime = now
        /\ budget'.layouts # budget.layouts =>
             \A k \in DOMAIN entities :
                 /\ entities'[k].lastDragTime = entities[k].lastDragTime
                 /\ IF entities[k].lastDragTime # NoDrag
                       /\ now - entities[k].lastDragTime < 10000
                    THEN entities'[k].targetPosition = entities[k].targetPosition
                    ELSE entities'[k].targetPosition =
                            LayoutTarget(entities,
                                         [j \in DOMAIN entities |->
                                             GetInteractionHistory(
                                                 EventsOf(interactions, entities[j].id),
                                                 now)],
                                         k, now, containerSize.width, containerSize.height)
        /\ (budget'.drags = budget.drags /\ budget'.layouts = budget.layouts) =>
             \A k \in DOMAIN entities :
                 /\ entities'[k].targetPosition = entities[k].targetPosition
                 /\ entities'[k].lastDragTime = entities[k].lastDragTime
      ]_vars

\* a layout pass ran 3000 ms after a drag and the dragged entity kept its target
C6_Witness ==
    /\ last.op = "recalculateLayout"
    /\ \E k \in DOMAIN entities :
          /\ entities[k].lastDragTime # NoDrag
          /\ last.time - entities[k].lastDragTime = 3000
          /\ entities[k].targetPosition = P34

\* the entity of the last interaction had been idle for `ms` with frequency 0
IdleBefore(ms) ==
    /\ Interacted
    /\ last.priorHistory.frequency = 0
    /\ last.time - Max(last.priorHistory.lastInteractionTime,
                       entities[LastIndex].createdAt) >= ms

\* the visual state after the frequency, velocity and hover/click rules of the last call
GrownVisualState ==
    LET h == entities[LastIndex].interactionHistory
        vs == last.captured
        n0 == [size |-> Unset, opacity |-> Unset]
    IN MergeVisualState(vs,
           HoverClickRule(VelocityRule(FrequencyRule(n0, vs, h), vs, h),
                          vs, last.type, last.duration))

\* C7: an interaction on an entity that was idle for 16000 ms with frequency 0
\* applies both decay rules: size - 8 (floor 36), opacity - 0.08 (floor 0.25)
\* and then - 0.12 (floor 0.18).
C7_DecayAfterIdle ==
    IdleBefore(16000) =>
        /\ entities[LastIndex].visualState.size = Max(36, GrownVisualState.size - 8)
        /\ entities[LastIndex].visualState.opacity
              = Max(18, Max(25, GrownVisualState.opacity - 8) - 12)

\* the straight-line distance of the last call's start and end position
LastDistance ==
    LET dx == last.endPosition.x - last.startPosition.x
        dy == last.endPosition.y - last.startPosition.y
    IN CHOOSE d \in 0..2000 : d * d <= dx * dx + dy * dy /\ (d + 1) * (d + 1) > dx * dx + dy * dy

\* the newest event of the id the last call recorded
LastEvent == interactions[last.id][Len(interactions[last.id])]

\* C8: a record with start and end position and duration > 0 stores the velocity
\* distance / (duration / 1000), whatever the last-position sample is; the first
\* record (2000 ms, (0,0) to (300,0)) of an entity gives frequency 1 and
\* averageVelocity 150.
C8_DirectVelocity ==
    last.op = "trackInteraction" =>
        /\ (last.startPosition # Undefined /\ last.endPosition # Undefined
              /\ last.duration > 0) =>
              LastEvent.velocity * last.duration = LastDistance * 1000
        /\ (last.priorHistory.interactionCount = 0 /\ last.duration = 2000
              /\ last.startPosition = P00 /\ last.endPosition = P30) =>
              /\ GetInteractionHistory(interactions[last.id], last.time).frequency = 1
              /\ GetInteractionHistory(interactions[last.id], last.time).averageVelocity = 150

\* the first record of entity-1 went from (0,0) to (300,0) in 2000 ms
C8_Witness ==
    /\ last.op = "trackInteraction"
    /\ last.priorHistory.interactionCount = 0
    /\ last.duration = 2000 /\ last.startPosition = P00 /\ last.endPosition = P30
    /\ LastEvent.velocity = 150
    /\ GetInteractionHistory(interactions[last.id], last.time).averageVelocity = 150

\* the opacity after the frequency and velocity rules of the last call
OpacityBeforeHover ==
    LET h == entities[LastIndex].interactionHistory
        o1 == IF h.frequency > 3 THEN Min(100, last.captured.opacity + 12)
              ELSE last.captured.opacity
    IN IF h.averageVelocity > 600 THEN Min(100, o1 + 5) ELSE o1

\* C9: a hover of more than 1200 ms commits the opacity min(1, o + 0.08), o being
\* the opacity after the frequency and velocity rules of the call; a hover of at
\* most 1200 ms commits o.
C9_HoverGlow ==
    (Interacted /\ last.type = "hover") =>
        entities[LastIndex].visualState.opacity
            = IF last.duration > 1200 THEN Min(100, OpacityBeforeHover + 8)
              ELSE OpacityBeforeHover

\* a long hover with frequency > 3 raised the opacity by 0.12 and 0.08, below the cap
C9_Witness ==
    /\ Interacted /\ last.type = "hover" /\ last.duration = 2000
    /\ entities[LastIndex].interactionHistory.frequency > 3
    /\ entities[LastIndex].visualState.opacity = last.captured.opacity + 20
    /\ entities[LastIndex].visualState.opacity < 100

\* C10: each handleEntityInteraction computes its result from the entity's latest
\* committed visual state, so the change of an earlier call is not lost.
C10_LatestCommitted ==
    Interacted =>
        LET h == entities[LastIndex].interactionHistory
        IN entities[LastIndex].visualState
              = MergeVisualState(last.committed,
                    NewVisualState(last.committed, h, last.type, last.duration,
                                   last.time - h.lastInteractionTime))

\* C11: the collection has max(10, min(20, entityCount)) entities with the ids
\* entity-0..entity-(n-1) in order, and every operation leaves the number and order
\* of the entities and each entity's id, createdAt, color and shape as created.
C11_FixedPopulation ==
    LET n == IF entityCountArg < 10 THEN 10
             ELSE IF entityCountArg > 20 THEN 20 ELSE entityCountArg
    IN /\ DOMAIN entities = 1..n
       /\ \A k \in 1..n :
             /\ entities[k].id = k - 1
             /\ entities[k].createdAt = StartTime
             /\ entities[k].visualState.color = COLORS[((k - 1) % Len(COLORS)) + 1]
             /\ entities[k].visualState.shape = SHAPES[((k - 1) % Len(SHAPES)) + 1]
       /\ \A j, k \in 1..n : j # k => entities[j].id # entities[k].id

\* a store asked for 25 entities holds 20 after an interaction and a layout pass
C11_Witness ==
    /\ entityCountArg = 25
    /\ Len(entities) = 20
    /\ budget.interactions < MaxInteractions
    /\ last.op = "recalculateLayout"

\* the step is a recalculateLayout pass
LayoutStep == budget'.layouts < budget.layouts

\* C12: after a pass in a container of width W and height H every entity that is
\* not drag-exempt has 40 <= targetPosition.x <= W - 40 and
\* 40 <= targetPosition.y <= H - 40.
C12_TargetInsideMargin ==
    [][LayoutStep =>
          \A k \in DOMAIN entities :
              ~RecentlyDragged(entities[k], now) =>
                  /\ 40 <= entities'[k].targetPosition.x
                  /\ entities'[k].targetPosition.x <= containerSize.width - 40
                  /\ 40 <= entities'[k].targetPosition.y
                  /\ entities'[k].targetPosition.y <= containerSize.height - 40]_vars

\* a pass in the smallest container has put an entity that was pushed over the
\* margin by a dragged neighbour exactly on the margin
C12_Witness ==
    /\ last.op = "recalculateLayout"
    /\ containerSize = [width |-> 320, height |-> 400]
    /\ \E k \in DOMAIN entities :
          /\ entities[k].lastDragTime = NoDrag
          /\ entities[k].targetPosition.x = 40

\* C13: a layout pass sets every entity's interactionHistory, exempt or not, to the
\* tracker's history of the entity at pass time, leaves the targetPosition of an
\* exempt entity alone, and leaves every entity's visualState, interactionState,
\* position, lastDragTime, id and createdAt unchanged.
C13_LayoutFrame ==
    [][LayoutStep =>
          /\ DOMAIN entities' = DOMAIN entities
          /\ \A k \in DOMAIN entities :
               LET evs == EventsOf(interactions, entities[k].id)
                   h == entities'[k].interactionHistory
               IN /\ WindowedHistory(h, evs, now)
                  /\ h.lastInteractionTime
                        = (IF evs = <<>> THEN 0 ELSE evs[Len(evs)].timestamp)
                  /\ h = GetInteractionHistory(evs, now)
                  /\ (entities[k].lastDragTime # NoDrag
                        /\ now - entities[k].lastDragTime < 10000)
                       => entities'[k].targetPosition = entities[k].targetPosition
                  /\ entities'[k].visualState = entities[k].visualState
                  /\ entities'[k].interactionState = entities[k].interactionState
                  /\ entities'[k].position = entities[k].position
                  /\ entities'[k].lastDragTime = entities[k].lastDragTime
                  /\ entities'[k].id = entities[k].id
                  /\ entities'[k].createdAt = entities[k].createdAt]_vars

\* a pass has refreshed the history of an exempt entity (its one event is now older
\* than a minute) and kept its dragged target, and has moved another entity
C13_Witness ==
    /\ last.op = "recalculateLayout"
    /\ \E k \in DOMAIN entities :
          /\ entities[k].lastDragTime # NoDrag
          /\ last.time - entities[k].lastDragTime < 10000
          /\ entities[k].targetPosition = P13
          /\ entities[k].interactionHistory.frequency = 0
          /\ entities[k].interactionHistory.interactionCount = 1
    /\ \E j \in DOMAIN entities :
          /\ entities[j].lastDragTime = NoDrag
          /\ entities[j].targetPosition
                # InitialEntities(DefaultEntityCount, 1200, 800,
                                  CHOOSE seed \in Seeds : TRUE, StartTime)[j].targetPosition

\* the entities as they were created
CreatedEntities ==
    InitialEntities(entityCountArg, 1200, 800, CHOOSE seed \in Seeds : TRUE, StartTime)

\* C14: the base target of an entity depends on (createdAt, index, id) and the
\* container size only: in every reachable state, whatever the entity's history and
\* interaction state and the time are, it is the base target of the entity as
\* created, and it lies in [80, W - 80] x [80, H - 80].
C14_BaseTargetDeterministic ==
    \A k \in DOMAIN entities, size \in ContainerSizes :
        LET b == BaseTarget(entities[k], k - 1, size.width, size.height)
        IN /\ b = BaseTarget(CreatedEntities[k], k - 1, size.width, size.height)
           /\ 80 <= b.x /\ b.x <= size.width - 80
           /\ 80 <= b.y /\ b.y <= size.height - 80

\* later, an entity with a history, another one active and dragged, and a base
\* target that the padding clamp has put on the edge
C14_Witness ==
    /\ now > StartTime
    /\ \E k \in DOMAIN entities :
          /\ entities[k].interactionHistory.interactionCount > 0
          /\ entities[k].interactionHistory.lastInteractionTime > StartTime
    /\ \E k \in DOMAIN entities :
          /\ entities[k].interactionState = "active"
          /\ entities[k].lastDragTime # NoDrag
    /\ \E k \in DOMAIN entities :
          BaseTarget(entities[k], k - 1, containerSize.width, containerSize.height).x
              \in {80, containerSize.width - 80}

\* the step is a getInteractionHistory call
HistoryStep == last'.op = "getInteractionHistory" /\ last' # last

\* C15: getInteractionHistory for an id without recorded events (never recorded,
\* unknown, or cleared by reset) returns the all-zero snapshot, and the call neither
\* creates an entry for the id nor changes the buffers or the last-position samples.
C15_EmptyHistory ==
    [][HistoryStep =>
          /\ (last'.id \notin DOMAIN interactions \/ Len(recorded[last'.id]) = 0) =>
                last'.returned = [frequency |-> 0, totalDuration |-> 0,
                                  lastInteractionTime |-> 0, averageVelocity |-> 0,
                                  interactionCount |-> 0]
          /\ interactions' = interactions
          /\ lastPosition' = lastPosition
          /\ DOMAIN interactions' = DOMAIN interactions]_vars

\* the history of entity-0 was asked for after a reset that followed records
C15_Witness ==
    /\ last.op = "getInteractionHistory"
    /\ last.id = 0
    /\ RecordsMade > 0
    /\ 0 \notin DOMAIN interactions
    /\ last.returned # Undefined
    /\ last.returned.interactionCount = 0

\* the step is a call of handleEntityInteraction, updateInteractionState or
\* updateTargetPosition with an id that matches no entity
UnknownIdStep ==
    /\ \/ budget'.interactions < budget.interactions
       \/ budget'.stateOps < budget.stateOps
       \/ budget'.drags < budget.drags
    /\ \A k \in DOMAIN entities : entities[k].id # last'.id

\* C16: updateInteractionState, updateTargetPosition and handleEntityInteraction
\* called with an id that matches no entity leave the entity collection exactly
\* as it was.
C16_UnknownIdNoOp ==
    [][UnknownIdStep => entities' = entities]_vars

\* handleEntityInteraction was called with the unknown id on a collection that has
\* changed since it was created; the tracker has recorded the event
C16_Witness ==
    /\ last.op = "handleEntityInteraction"
    /\ last.id = UnknownId
    /\ ~last.found
    /\ UnknownId \in DOMAIN interactions
    /\ entities # CreatedEntities
    /\ budget.stateOps < MaxStateOps
    /\ budget.drags < MaxDrags

\* C17: right after reset the history of every id is the all-zero snapshot, and the
\* first record of an id after a reset that passes an endPosition but no
\* startPosition stores the velocity 0.
C17_ResetClearsSamples ==
    /\ last.op = "reset" =>
          \A id \in Ids :
              GetInteractionHistory(EventsOf(interactions, id), now)
                  = [frequency |-> 0, totalDuration |-> 0, lastInteractionTime |-> 0,
                     averageVelocity |-> 0, interactionCount |-> 0]
    /\ (/\ last.op = "trackInteraction"
        /\ budget.resets < MaxResets
        /\ Len(recorded[last.id]) = 1
        /\ last.startPosition = Undefined
        /\ last.endPosition # Undefined) => LastEvent.velocity = 0

\* records were made (one of them a departure from the burst), reset was called, and
\* the first record of entity-0 afterwards ends at (300,0) without a start position
C17_Witness ==
    /\ last.op = "trackInteraction"
    /\ budget.resets < MaxResets
    /\ budget.variety < MaxVariety
    /\ last.id = 0
    /\ recorded[1] = <<>>
    /\ Len(recorded[0]) = 1
    /\ last.startPosition = Undefined
    /\ last.endPosition = P30
    /\ RecordsMade > 1
    /\ LastEvent.velocity = 0

\* C18: while Home is mounted a layout pass occurs within 3000 ms of any moment and
\* of the previous pass, whatever interactions and resizes happen: no more than
\* 3000 ms have ever passed since the last pass (or since the mount).
C18_LayoutEvery3000 ==
    mounted => now - lastPass <= 3000

\* C19: at most one layout timer is active at any time, and after the unmount no
\* timer is left and no layout pass runs.
C19_OneTimerUntilUnmount ==
    [][/\ Cardinality(intervals') <= 1
       /\ ~mounted' => intervals' = {}
       /\ ~mounted => (lastPass' = lastPass /\ last'.op # "recalculateLayout")]_vars

\* the timer was re-created by a resize, Home was unmounted, and more than a period
\* has passed since without a pass
C19_Witness ==
    /\ ~mounted
    /\ budget.resizes < MaxResizes
    /\ last.op = "unmount"
    /\ now - lastPass > 3000
    /\ lastPass > StartTime

\* the time since the last interaction of the evaluation under test
SpringIdle == springIn.time - springIn.history.lastInteractionTime

\* the values before the clamp when neither ignored rule applies: rules 1 to 3
SpringEngaged ==
    LET h == springIn.history
    IN [stiffness |-> (IF h.frequency > 3 THEN 200 + 20 * h.frequency ELSE 100)
                      + (IF h.averageVelocity > 500 THEN 100 ELSE 0),
        damping |-> (IF h.frequency > 3 THEN 20 + 2 * h.frequency ELSE 15)
                    - (IF h.averageVelocity > 500 THEN 5 ELSE 0)
                    + (IF h.totalDuration > 5000 THEN 2 ELSE 0),
        mass |-> (IF h.frequency > 3 THEN 8 ELSE 10)
                 + (IF h.totalDuration > 5000 THEN 2 ELSE 0)]

C21_IgnoredSpringAfter5s ==
    (/\ springOut # NoSpringOut
     /\ ~springIn.prefersReducedMotion
     /\ springIn.history.interactionCount > 0
     /\ SpringIdle > 5000
     /\ SpringIdle <= 10000) => springOut = [stiffness |-> 50, damping |-> 10, mass |-> 15]

\* C22: an entity with the all-zero initial history is given the baseline spring
\* {100, 15, 1} (reduced motion off).
C22_BaselineSpringWhenIdle ==
    (/\ springOut # NoSpringOut
     /\ ~springIn.prefersReducedMotion
     /\ springIn.history = [frequency |-> 0, totalDuration |-> 0, lastInteractionTime |-> 0,
                            averageVelocity |-> 0, interactionCount |-> 0])
        => springOut = [stiffness |-> 100, damping |-> 15, mass |-> 10]

\* the step is a trackInteraction call of the tracker
RecordStep == budget'.records < budget.records

\* the totalDuration the tracker reports for an id
TotalDurationOf(evs, id) == DurationUpTo(EventsOf(evs, id), Len(EventsOf(evs, id)))

\* C23: between resets, recording an interaction never decreases the totalDuration
\* of any id's history, however many interactions have been recorded.
C23_TotalDurationCumulative ==
    [][RecordStep =>
          \A id \in Ids :
              TotalDurationOf(interactions', id) >= TotalDurationOf(interactions, id)]_vars

\* C24: every stored event has a finite velocity >= 0, and the velocity is 0 when
\* neither path applies: start, end and a duration > 0 are not all given, and there
\* is no previous sample of the id, or no endPosition, or no time has passed since
\* the sample.
C24_VelocityGuarded ==
    [][RecordStep =>
          LET c == last'
              ev == interactions'[c.id][Len(interactions'[c.id])]
              direct == c.startPosition # Undefined /\ c.endPosition # Undefined
                        /\ c.duration > 0
              sampled == /\ c.id \in DOMAIN lastPosition
                         /\ c.endPosition # Undefined
                         /\ now' - lastPosition[c.id].timestamp > 0
          IN /\ ev.velocity \in Nat
             /\ (~direct /\ ~sampled) => ev.velocity = 0]_vars

\* a record with start and end but duration 0, made in the same millisecond as the
\* previous sample of the id, has stored the velocity 0
C24_Witness ==
    /\ last.op = "trackInteraction"
    /\ last.duration = 0
    /\ last.startPosition = P00
    /\ last.endPosition = P34
    /\ Len(recorded[last.id]) >= 2
    /\ recorded[last.id][Len(recorded[last.id]) - 1].timestamp = last.time
    /\ last.id \in DOMAIN lastPosition
    /\ LastEvent.velocity = 0

\* C25: updateInteractionState(id, s) changes only the interactionState of entity
\* id, and updateTargetPosition(id, x, y) only its targetPosition (to (x, y)) and
\* lastDragTime (to now); every other field, every other entity and the tracker's
\* buffers and samples stay as they were.
C25_SetterFrames ==
    [][/\ budget'.stateOps < budget.stateOps =>
             /\ DOMAIN entities' = DOMAIN entities
             /\ \A k \in DOMAIN entities :
                   entities'[k] = IF entities[k].id = last'.id
                                  THEN [entities[k] EXCEPT !.interactionState = last'.state]
                                  ELSE entities[k]
             /\ interactions' = interactions /\ lastPosition' = lastPosition
       /\ budget'.drags < budget.drags =>
             /\ DOMAIN entities' = DOMAIN entities
             /\ \A k \in DOMAIN entities :
                   entities'[k] = IF entities[k].id = last'.id
                                  THEN [entities[k] EXCEPT
                                           !.targetPosition = [x |-> last'.x, y |-> last'.y],
                                           !.lastDragTime = now]
                                  ELSE entities[k]
             /\ interactions' = interactions /\ lastPosition' = lastPosition]_vars

\* entity-1 was set active and then dragged to (300,400) some time after the start,
\* while the tracker holds events
C25_Witness ==
    /\ last.op = "updateTargetPosition"
    /\ last.id = 1
    /\ entities[2].interactionState = "active"
    /\ entities[2].targetPosition = P34
    /\ entities[2].lastDragTime = now
    /\ now > StartTime
    /\ interactions # EmptyMap

\* C26: a handleEntityInteraction whose fresh history has frequency > 3 never
\* commits a size or an opacity smaller than the entity had before the call.
C26_FrequentNeverShrinks ==
    (Interacted /\ entities[LastIndex].interactionHistory.frequency > 3) =>
        /\ entities[LastIndex].visualState.size >= last.committed.size
        /\ entities[LastIndex].visualState.opacity >= last.committed.opacity

\* the visual state the call read, with the frequency, velocity and hover/click
\* deltas added one after the other
CumulativeVisualState ==
    LET h == entities[LastIndex].interactionHistory
        vs == last.captured
        s1 == IF h.frequency > 3 THEN Min(130, vs.size + 12) ELSE vs.size
        o1 == IF h.frequency > 3 THEN Min(100, vs.opacity + 12) ELSE vs.opacity
        s2 == IF h.averageVelocity > 600 THEN Min(135, s1 + 6) ELSE s1
        o2 == IF h.averageVelocity > 600 THEN Min(100, o1 + 5) ELSE o1
        s3 == IF last.type = "click" /\ last.duration < 400 THEN Min(140, s2 + 4) ELSE s2
        o3 == IF last.type = "hover" /\ last.duration > 1200 THEN Min(100, o2 + 8) ELSE o2
    IN [vs EXCEPT !.size = s3, !.opacity = o3]

TentativeTarget(prev, histories, k, time, containerWidth, containerHeight) ==
    EdgeDrift(CenterPull(BaseTarget(prev[k], k - 1, containerWidth, containerHeight),
                         histories[k], containerWidth, containerHeight),
              histories[k], time, containerWidth, containerHeight)

\* the push on the target t from a node at p: none from 180 px on, none when the
\* two coincide
PushFrom(t, p) ==
    LET dx == t.x - p.x
        dy == t.y - p.y
        dist == Sqrt(dx * dx + dy * dy)
    IN IF dx * dx + dy * dy >= 1 /\ dist < 180
       THEN [x |-> (dx * (180 - dist) * 28) \div (dist * 180),
             y |-> (dy * (180 - dist) * 28) \div (dist * 180)]
       ELSE [x |-> 0, y |-> 0]

RECURSIVE PushSum(_, _, _)
\* the pushes on t from the nodes `others`, each at positions[o], added up
PushSum(t, positions, others) ==
    IF others = {} THEN [x |-> 0, y |-> 0]
    ELSE LET o == CHOOSE j \in others : TRUE
             rest == PushSum(t, positions, others \ {o})
         IN [x |-> PushFrom(t, positions[o]).x + rest.x,
             y |-> PushFrom(t, positions[o]).y + rest.y]

\* the histories a pass started now computes
PassHistories ==
    [j \in DOMAIN entities |->
        GetInteractionHistory(EventsOf(interactions, entities[j].id), now)]

\* the tentative targets of a pass started now
PassTentativeTargets ==
    [j \in DOMAIN entities |->
        TentativeTarget(entities, PassHistories, j, now,
                        containerSize.width, containerSize.height)]

\* the target of entity k after a pass started now in which the other active
\* entities repel from `positions`
RepelledTarget(k, positions) ==
    LET t == PassTentativeTargets[k]
        others == {j \in DOMAIN entities \ {k} :
                      \/ PassHistories[j].frequency > 0
                      \/ entities[j].interactionState = "active"}
        push == PushSum(t, positions, others)
        drift == Drift(k - 1, now)
    IN [x |-> Max(40, Min(containerSize.width - 40, t.x + push.x + drift.x)),
        y |-> Max(40, Min(containerSize.height - 40, t.y + push.y + drift.y))]

\* C28 as stated: in a pass the push on entity A from another active entity B is
\* computed from the distance between A's tentative target and B's tentative
\* target of the same pass, added only below 180 px and for a pair that does not
\* coincide, and never from A itself or from an entity that is not active.
C28_FromTentativeTargets ==
    [][LayoutStep =>
          \A k \in DOMAIN entities :
              ~RecentlyDragged(entities[k], now) =>
                  entities'[k].targetPosition = RepelledTarget(k, PassTentativeTargets)]_vars

\* C28 amended: in a pass the push on entity A from another active entity B is
\* computed from the distance between A's tentative target and the targetPosition
\* B has when the pass starts (set by the previous pass, by a drag or at creation),
\* added only below 180 px and for a pair that does not coincide, and never from A
\* itself or from an entity that is not active.
C28_FromStoredTargets ==
    [][LayoutStep =>
          \A k \in DOMAIN entities :
              ~RecentlyDragged(entities[k], now) =>
                  entities'[k].targetPosition
                      = RepelledTarget(k, [j \in DOMAIN entities |->
                                              entities[j].targetPosition])]_vars

\* a pass has pushed an entity away from the only active entity, which was dragged
\* to (110, 300), keeps that target, and has its tentative target elsewhere
C28_Witness ==
    /\ last.op = "recalculateLayout"
    /\ \E b \in DOMAIN entities :
          /\ RecentlyDragged(entities[b], now)
          /\ entities[b].targetPosition = P13
          /\ entities[b].interactionHistory.frequency > 0
          /\ \A j \in DOMAIN entities \ {b} :
                /\ entities[j].interactionHistory.frequency = 0
                /\ entities[j].interactionState # "active"
          /\ \E a \in DOMAIN entities \ {b} :
                LET hs == [j \in DOMAIN entities |-> entities[j].interactionHistory]
                    t == TentativeTarget(entities, hs, a, now,
                                         containerSize.width, containerSize.height)
                    tb == TentativeTarget(entities, hs, b, now,
                                          containerSize.width, containerSize.height)
                    push == PushFrom(t, P13)
                    drift == Drift(a - 1, now)
                IN /\ entities[a].lastDragTime = NoDrag
                   /\ push # [x |-> 0, y |-> 0]
                   /\ push # PushFrom(t, tb)
                   /\ entities[a].targetPosition
                         = [x |-> Max(40, Min(containerSize.width - 40,
                                              t.x + push.x + drift.x)),
                            y |-> Max(40, Min(containerSize.height - 40,
                                              t.y + push.y + drift.y))]
                   /\ entities[a].targetPosition
                         # [x |-> Max(40, Min(containerSize.width - 40, t.x + drift.x)),
                            y |-> Max(40, Min(containerSize.height - 40, t.y + drift.y))]

\* C29: while an entity is dragged, from handleDragStart until handleDragEnd, its
\* interactionState is 'active', whatever hover and click events, the click's
\* delayed return to idle included, come in between.
C29_ActiveWhileDragged ==
    \A k \in Views :
        dragStartPosRef[k] # Undefined => entities[k].interactionState = "active"

\* entity id was interacted with less than 60000 ms ago
InteractedWithinMinute(id) ==
    /\ id \in DOMAIN recorded
    /\ \E i \in 1..Len(recorded[id]) : now - recorded[id][i].timestamp < 60000

====
